---- MODULE Spec2Model ----
(***************************************************************************)
(* RetroSnap: the photo lifecycle controller (App), the persistent photo   *)
(* store and the gallery reconciliation (storageService), and the two AI   *)
(* collaborators (geminiService), as a state machine.                      *)
(***************************************************************************)
EXTENDS Integers, Sequences, FiniteSets, TLC

\* ------------------------------------------------------------------ bounds
\* photos captured in one behaviour (ids handed out by crypto.randomUUID)
MaxPhotos == 2
\* user operations and storage failures in one behaviour
MaxOps == 3
\* asynchronous calls of one kind that are in flight together
MaxPending == 2

\* ------------------------------------------------------- program constants
\* saveUserPhotos: p.dataUrl.length > 500000
SizeThreshold == 500000
\* compressImage: maxWidth = 800
MaxWidth == 800
\* getGlobalGallery: limit(50)
FetchLimit == 50

\* --------------------------------------------------------------- data model
\* An encoded image (a data URL or a URL): its text length and the pixel
\* size it decodes to; ok = FALSE is text the browser cannot decode.
Image(fmt, w, h, len, ok) == [fmt |-> fmt, w |-> w, h |-> h, len |-> len, ok |-> ok]

\* CameraSection: a square JPEG frame; one exactly at the size threshold of
\* saveUserPhotos and one just above it.
CamEdge == Image("jpeg90", 720, 720, 500000, TRUE)
CamBig  == Image("jpeg90", 1080, 1080, 500001, TRUE)
CaptureImages == {CamEdge, CamBig}

\* editPhotoStyle: `data:image/png;base64,${part.inlineData.data}`
StyledImage == Image("png", 1024, 1024, 900000, TRUE)

\* a coordinate the geolocation answer does not carry (undefined)
NoCoord == -999

\* Photo.location: has = FALSE is `undefined`
NoLoc == [has |-> FALSE, lat |-> NoCoord, lng |-> NoCoord, city |-> ""]
Loc(lat, lng, city) == [has |-> TRUE, lat |-> lat, lng |-> lng, city |-> city]

\* JavaScript truthiness of a coordinate: undefined and 0 are falsy
Truthy(c) == c # NoCoord /\ c # 0

\* crypto.randomUUID(): the n-th identifier handed out
UUIDs == <<"uuid-1", "uuid-2", "uuid-3", "uuid-4">>
randomUUID(n) == UUIDs[n]

\* the browser window (a desktop layout: innerWidth >= 768)
Viewport == [innerWidth |-> 1024, innerHeight |-> 800]
isMobile == Viewport.innerWidth < 768
startX == IF isMobile THEN (Viewport.innerWidth \div 2) - 120 ELSE 40
startY == IF isMobile THEN 20 ELSE Viewport.innerHeight - 400

\* const newPhoto: Photo = {...} of handleCapture
NewPhoto(id, dataUrl, ts, rot, loc) ==
  [ id |-> id, dataUrl |-> dataUrl, timestamp |-> ts,
    x |-> startX, y |-> startY, rotation |-> rot,
    caption |-> "", isGeneratingCaption |-> TRUE, isPublic |-> FALSE,
    location |-> loc, developmentProgress |-> 0 ]

SeedPhoto(id, rot, caption, lat, lng, city) ==
  [ id |-> id, dataUrl |-> Image("url", 600, 600, 90, TRUE), timestamp |-> 0,
    x |-> 0, y |-> 0, rotation |-> rot,
    caption |-> caption, isGeneratingCaption |-> FALSE, isPublic |-> TRUE,
    location |-> Loc(lat, lng, city), developmentProgress |-> 100 ]

\* Curated Case Photos (coordinates rounded to whole degrees)
INITIAL_COMMUNITY_PHOTOS ==
  << SeedPhoto("case-tokyo", -2, "Neon nights", 35, 139, "Tokyo"),
     SeedPhoto("case-paris", 3, "Bonjour Paris", 48, 2, "Paris"),
     SeedPhoto("case-iceland", 4, "Ice & Fire", 64, -19, "Iceland"),
     SeedPhoto("case-rio", 2, "Carnival!", -22, -43, "Rio") >>

\* ---------------------------------------------------------- list helpers
Ids(list) == {list[i].id : i \in 1..Len(list)}

RECURSIVE FilterPublic(_)
\* list.filter(p => p.isPublic)
FilterPublic(list) ==
  IF list = <<>> THEN <<>>
  ELSE (IF Head(list).isPublic THEN <<Head(list)>> ELSE <<>>)
       \o FilterPublic(Tail(list))

RECURSIVE FilterOut_DropsRest(_, _)
\* a filter that stops at the photo it removes and drops what follows it
FilterOut_DropsRest(list, id) ==
  IF list = <<>> \/ Head(list).id = id THEN <<>>
  ELSE <<Head(list)>> \o FilterOut_DropsRest(Tail(list), id)

RECURSIVE FilterOut(_, _)
\* prev.filter(p => p.id !== id)
FilterOut(list, id) ==
  IF list = <<>> THEN <<>>
  ELSE (IF Head(list).id # id THEN <<Head(list)>> ELSE <<>>)
       \o FilterOut(Tail(list), id)

\* a Map whose set keeps the value a key already has
MapSet_KeepsFirst(m, p) ==
  IF \E i \in 1..Len(m) : m[i].id = p.id THEN m ELSE Append(m, p)

\* Map.prototype.set on a Map kept as the list of its values in key order:
\* an existing key keeps its place and takes the new value
MapSet(m, p) ==
  IF \E i \in 1..Len(m) : m[i].id = p.id
  THEN [i \in 1..Len(m) |-> IF m[i].id = p.id THEN p ELSE m[i]]
  ELSE Append(m, p)

RECURSIVE MapSetAll(_, _)
\* new Map(list.map(p => [p.id, p])) and list.forEach(p => map.set(p.id, p))
MapSetAll(m, list) ==
  IF list = <<>> THEN m ELSE MapSetAll(MapSet(m, Head(list)), Tail(list))

\* ------------------------------------------------------ image compression
\* the text length of canvas.toDataURL('image/jpeg', 0.6) for a w x h canvas
JpegLen(w, h) == (w * h) \div 4

\* the pixel sides of the images the model compresses
CompressSides == {1, 600, 720, 800, 801, 1024, 1078, 1080, 1089, 1600, 2000}

\* the pairs <<a, b>> of CompressSides for which the double a * (800 / b) is
\* just below the quotient a * 800 / b, which is a whole number:
\* 1078 * (800 / 1078) and 1089 * (800 / 1089) are 799.9999999999999
RoundsBelow == {<<1078, 1078>>, <<1089, 1089>>}

\* compressImage clamping each side on its own
compressImage_ClampsBoth(img) ==
  IF ~img.ok THEN img
  ELSE LET width  == IF img.w > MaxWidth THEN MaxWidth ELSE img.w
           height == IF img.h > MaxWidth THEN MaxWidth ELSE img.h
       IN Image("jpeg60", width, height, JpegLen(width, height), TRUE)

\* a *= maxWidth / b in doubles, then canvas.width = a (or canvas.height),
\* which drops the fraction
Scaled(a, b) ==
  ((a * MaxWidth) \div b) - (IF <<a, b>> \in RoundsBelow THEN 1 ELSE 0)

\* compressImage(base64Str, maxWidth = 800, quality = 0.6)
compressImage(img) ==
  IF ~img.ok THEN img
  ELSE LET width  == IF img.w > img.h
                     THEN (IF img.w > MaxWidth THEN MaxWidth ELSE img.w)
                     ELSE (IF img.h > MaxWidth THEN Scaled(img.w, img.h) ELSE img.w)
           height == IF img.w > img.h
                     THEN (IF img.w > MaxWidth THEN Scaled(img.h, img.w) ELSE img.h)
                     ELSE (IF img.h > MaxWidth THEN MaxWidth ELSE img.h)
       IN Image("jpeg60", width, height, JpegLen(width, height), TRUE)

\* p.dataUrl.length > 500000
IsLarge(p) == p.dataUrl.len > SizeThreshold

\* step 1 of saveUserPhotos: compress large images
CompressPhotos(list) ==
  [i \in 1..Len(list) |->
     IF IsLarge(list[i])
     THEN [list[i] EXCEPT !.dataUrl = compressImage(list[i].dataUrl)]
     ELSE list[i]]

\* ------------------------------------------------------- durable storage
\* The text under a localStorage key: absent (getItem gives null), the empty
\* string, text that is no JSON, JSON of a value that is no array (an object,
\* null), or JSON of an array of photos.
Stored(kind, val) == [kind |-> kind, val |-> val]
Absent == Stored("absent", <<>>)

\* JSON.stringify(photos)
JSONstringify(list) == Stored("array", list)

\* JSON.parse(text): [threw, t, v] with t the type of the parsed value
JSONparse(s) ==
  CASE s.kind = "array"  -> [threw |-> FALSE, t |-> "array",  v |-> s.val]
    [] s.kind = "object" -> [threw |-> FALSE, t |-> "object", v |-> <<>>]
    [] s.kind = "null"   -> [threw |-> FALSE, t |-> "null",   v |-> <<>>]
    [] OTHER             -> [threw |-> TRUE,  t |-> "none",   v |-> <<>>]

\* try { stored = getItem(KEY); return stored ? JSON.parse(stored) : [] }
\* catch { return [] }: the value handed to the caller
ReadKey(s) ==
  IF s.kind \in {"absent", "empty"} THEN [t |-> "array", v |-> <<>>]
  ELSE LET r == JSONparse(s)
       IN IF r.threw THEN [t |-> "array", v |-> <<>>]
          ELSE [t |-> r.t, v |-> r.v]

getUserPhotos(user) == ReadKey(user)

getSharedPoolLocal(pool) == ReadKey(pool)

\* addToSharedPoolLocal writing nothing
addToSharedPoolLocal_Drops(pool, list, quota) == pool

\* addToSharedPoolLocal writing the given photos over the pool
addToSharedPoolLocal_Replaces(pool, list, quota) ==
  IF getSharedPoolLocal(pool).t # "array" \/ quota THEN pool
  ELSE JSONstringify(list)

\* addToSharedPoolLocal(photos): the new text under SHARED_POOL_KEY;
\* quota = TRUE is setItem throwing QuotaExceededError. Every throw inside
\* (currentPool.map on a value that is no array, setItem) is caught.
addToSharedPoolLocal(pool, list, quota) ==
  LET currentPool == getSharedPoolLocal(pool)
  IN IF currentPool.t # "array" \/ quota THEN pool
     ELSE JSONstringify(MapSetAll(MapSetAll(<<>>, currentPool.v), list))

\* saveUserPhotos with the pool synchronised outside the try block: a failed
\* write of the user record no longer skips it
saveUserPhotos_SyncAfterFailure(list, user, pool, dbv, userQuota, poolQuota) ==
  LET compressedPhotos == CompressPhotos(list)
      publicPhotos     == FilterPublic(compressedPhotos)
  IN [user |-> IF userQuota THEN user ELSE JSONstringify(compressedPhotos),
      pool |-> IF dbv THEN pool ELSE addToSharedPoolLocal(pool, publicPhotos, poolQuota),
      wr |-> IF userQuota THEN "quota" ELSE "ok",
      pw |-> IF dbv THEN "none" ELSE IF poolQuota THEN "quota" ELSE "ok",
      threw |-> FALSE, cloud |-> <<>>]

\* saveUserPhotos without step 3: the public photos are never put in the pool
saveUserPhotos_NoPoolSync(list, user, pool, dbv, userQuota, poolQuota) ==
  [user |-> IF userQuota THEN user ELSE JSONstringify(CompressPhotos(list)),
   pool |-> pool,
   wr |-> IF userQuota THEN "quota" ELSE "ok",
   pw |-> "none",
   threw |-> FALSE, cloud |-> <<>>]

\* saveUserPhotos merging the list into the prior record instead of replacing it
saveUserPhotos_Merge(list, user, pool, dbv, userQuota, poolQuota) ==
  LET compressedPhotos == CompressPhotos(list)
      publicPhotos     == FilterPublic(compressedPhotos)
      prior            == getUserPhotos(user).v
  IN IF userQuota
     THEN [user |-> user, pool |-> pool, wr |-> "quota", pw |-> "none", threw |-> FALSE,
           cloud |-> <<>>]
     ELSE [user |-> JSONstringify(MapSetAll(MapSetAll(<<>>, prior), compressedPhotos)),
           pool |-> IF dbv THEN pool
                    ELSE addToSharedPoolLocal(pool, publicPhotos, poolQuota),
           wr |-> "ok",
           pw |-> IF dbv THEN "none" ELSE IF poolQuota THEN "quota" ELSE "ok",
           threw |-> FALSE, cloud |-> <<>>]

\* step 3 of saveUserPhotos sending every public photo to the remote
\* collection
SaveCloudSync_UploadsAll(publicPhotos) == publicPhotos

\* step 3 of saveUserPhotos with a db: the public photos are filtered and
\* the block ends there; the photos it sends to the remote collection
SaveCloudSync(publicPhotos) == <<>>

\* saveUserPhotos(photos) from its first line to its last: the texts under
\* the two keys afterwards, what happened to each write (wr, pw), whether
\* the call threw (its catch takes every exception), and the photos it sent
\* to the remote collection (cloud).
\* userQuota / poolQuota: that setItem throws QuotaExceededError.
saveUserPhotos(list, user, pool, dbv, userQuota, poolQuota) ==
  LET compressedPhotos == CompressPhotos(list)
      publicPhotos     == FilterPublic(compressedPhotos)
  IN IF userQuota
     THEN [user |-> user, pool |-> pool, wr |-> "quota", pw |-> "none", threw |-> FALSE,
           cloud |-> <<>>]
     ELSE IF dbv
     THEN [user |-> JSONstringify(compressedPhotos), pool |-> pool,
           wr |-> "ok", pw |-> "none", threw |-> FALSE,
           cloud |-> SaveCloudSync(publicPhotos)]
     ELSE [user |-> JSONstringify(compressedPhotos),
           pool |-> addToSharedPoolLocal(pool, publicPhotos, poolQuota),
           wr |-> "ok",
           pw |-> IF poolQuota THEN "quota"
                  ELSE IF getSharedPoolLocal(pool).t # "array" THEN "threw"
                  ELSE "ok",
           threw |-> FALSE, cloud |-> <<>>]

\* ------------------------------------------------- gallery reconciliation
\* getGlobalGallery with the merge turned round: the remote copy overwrites
\* the user's
getGlobalGallery_RemoteWins(fetched, pool, user) ==
  LET poolVal  == getSharedPoolLocal(pool)
      userVal  == getUserPhotos(user)
      fellBack == Len(fetched) = 0
      remotePhotos == IF fellBack THEN INITIAL_COMMUNITY_PHOTOS \o poolVal.v ELSE fetched
      userPublic == FilterPublic(userVal.v)
  IN IF (fellBack /\ poolVal.t # "array") \/ userVal.t # "array"
     THEN [threw |-> TRUE, list |-> <<>>]
     ELSE [threw |-> FALSE,
           list |-> MapSetAll(MapSetAll(<<>>, userPublic), remotePhotos)]

\* getGlobalGallery adding the curated photos and the pool whatever was fetched
getGlobalGallery_AlwaysSeeds(fetched, pool, user) ==
  LET poolVal  == getSharedPoolLocal(pool)
      userVal  == getUserPhotos(user)
      remotePhotos == fetched \o INITIAL_COMMUNITY_PHOTOS \o poolVal.v
      userPublic == FilterPublic(userVal.v)
  IN IF poolVal.t # "array" \/ userVal.t # "array"
     THEN [threw |-> TRUE, list |-> <<>>]
     ELSE [threw |-> FALSE,
           list |-> MapSetAll(MapSetAll(<<>>, remotePhotos), userPublic)]

\* steps 2 and 3 of getGlobalGallery, given what step 1 fetched: the list it
\* resolves with, or threw = TRUE when it rejects (a spread or a .filter of a
\* value that is no array throws a TypeError nothing catches)
getGlobalGallery(fetched, pool, user) ==
  LET poolVal  == getSharedPoolLocal(pool)
      userVal  == getUserPhotos(user)
      fellBack == Len(fetched) = 0
      remotePhotos == IF fellBack THEN INITIAL_COMMUNITY_PHOTOS \o poolVal.v ELSE fetched
      userPublic == FilterPublic(userVal.v)
  IN IF (fellBack /\ poolVal.t # "array") \/ userVal.t # "array"
     THEN [threw |-> TRUE, list |-> <<>>]
     ELSE [threw |-> FALSE,
           list |-> MapSetAll(MapSetAll(<<>>, remotePhotos), userPublic)]

\* the orders in which query(orderBy("timestamp", "desc"), limit(50)) may
\* return the documents: newest first, documents of one timestamp in the
\* order of their (random) document names
QueryOrders(docs) ==
  LET n == Len(docs)
      perms == {f \in [1..n -> 1..n] : \A i, j \in 1..n : i # j => f[i] # f[j]}
      desc(f) == \A i, j \in 1..n : i < j => docs[f[i]].timestamp >= docs[f[j]].timestamp
  IN {[i \in 1..(IF n < FetchLimit THEN n ELSE FetchLimit) |-> docs[f[i]]] :
        f \in {g \in perms : desc(g)}}

\* --------------------------------------------------------- AI collaborators
\* what the provider call does when an API key is set
ProviderOutcomes == {"content", "error"}

\* generatePhotoCaption letting a provider error reach its caller
generatePhotoCaption_Rejects(key, outcome) ==
  IF ~key THEN [rejected |-> FALSE, text |-> "Memories captured..."]
  ELSE CASE outcome = "content" -> [rejected |-> FALSE, text |-> "Nice!"]
         [] outcome = "blank"   -> [rejected |-> FALSE, text |-> "A beautiful moment"]
         [] OTHER               -> [rejected |-> TRUE,  text |-> ""]

\* generatePhotoCaption(base64Image): the text it resolves with (it has no
\* path that rejects)
generatePhotoCaption(key, outcome) ==
  IF ~key THEN [rejected |-> FALSE, text |-> "Memories captured..."]
  ELSE CASE outcome = "content" -> [rejected |-> FALSE, text |-> "Nice!"]
         [] outcome = "blank"   -> [rejected |-> FALSE, text |-> "A beautiful moment"]
         [] OTHER               -> [rejected |-> FALSE, text |-> "Snap!"]

\* editPhotoStyle(base64Image, prompt): the image it resolves with, or null
editPhotoStyle(key, outcome) ==
  IF key /\ outcome = "content"
  THEN [isNull |-> FALSE, img |-> StyledImage]
  ELSE [isNull |-> TRUE, img |-> StyledImage]

\* -------------------------------------------------------------------- state
VARIABLES
  photos,        \* App: const [photos, setPhotos]
  isLoaded,      \* App: const [isLoaded, setIsLoaded]
  userLocation,  \* App: const [userLocation, setUserLocation]
  globalPhotos,  \* App: const [globalPhotos, setGlobalPhotos]
  nextId,        \* identifiers handed out so far
  apiKey,        \* geminiService: API_KEY is set
  db,            \* storageService: the Firestore handle is not null
  lsUser,        \* localStorage[USER_STORAGE_KEY]
  lsPool,        \* localStorage[SHARED_POOL_KEY]
  remote,        \* the documents of collection "global_gallery"
  captions,      \* ids whose generatePhotoCaption call is in flight
  edits,         \* ids of the editPhotoStyle calls in flight
  saves,         \* saveUserPhotos calls waiting for their images to decode
  uploads,       \* uploadToCloud calls in flight
  ops,           \* user operations so far
  lastOp,        \* the operation of the last step and what it did
  view,          \* App: const [view, setView]
  polaroids,     \* DraggablePolaroid: the mounted components, by photo id
  deleted        \* ids of the photos deletePhoto has removed so far

vars == <<photos, isLoaded, userLocation, globalPhotos, nextId, apiKey, db,
          lsUser, lsPool, remote, captions, edits, saves, uploads, ops, lastOp,
          view, polaroids, deleted>>

\* the wall is not part of the step: no polaroid mounts, unmounts or develops
WallUnchanged == UNCHANGED <<view, polaroids>>

\* A collaborator call made without an API key has already settled: its
\* continuation is a microtask and runs before any other event.
NoMicrotaskPending == apiKey \/ (captions = {} /\ edits = <<>>)

\* the record kept of one step: the operation, its id argument, the photos
\* it handed to uploadToCloud, the list it handed to saveUserPhotos (or that a
\* completing save was called with, or that a fetch or a read returned), the
\* fate of the two writes, whether the call threw, the type of the value a
\* read returned, how a collaborator call ended, the arguments of the call,
\* and the photos a saveUserPhotos call sent to the remote collection
Op(op, id, ups, out) ==
  [op |-> op, id |-> id, ups |-> ups, out |-> out, snap |-> <<>>,
   wr |-> "none", pw |-> "none", threw |-> FALSE, ret |-> "none",
   args |-> <<>>, cloud |-> <<>>]

NoOp == Op("init", "", <<>>, "none")

RemoveAt(s, i) == SubSeq(s, 1, i - 1) \o SubSeq(s, i + 1, Len(s))

\* the outcomes of the two setItem calls of one saveUserPhotos(list)
QuotaCases(list) ==
  {q \in [user : BOOLEAN, pool : BOOLEAN] :
     q.pool => (~q.user /\ ~db /\ getSharedPoolLocal(lsPool).t = "array")}

\* a storage failure counts against the budget of the behaviour
Failures(q) == IF q.user \/ q.pool THEN 1 ELSE 0

\* The auto-save effect (useEffect on [photos, isLoaded]) after setPhotos
\* made `list` the collection: saveUserPhotos(list). With no large image its
\* awaits are microtasks and it runs to its end before any other event; with
\* one it waits for the image to decode and finishes in a later step.
\* `what` is the record of the operation, `cost` what the operation itself
\* takes of the budget.
AutoSave(list, what, cost) ==
  IF \E i \in 1..Len(list) : IsLarge(list[i])
  THEN /\ Len(saves) < MaxPending
       /\ saves' = Append(saves, list)
       /\ ops' = ops + cost
       /\ UNCHANGED <<lsUser, lsPool>>
       /\ lastOp' = [what EXCEPT !.snap = list, !.wr = "deferred"]
  ELSE \E q \in QuotaCases(list) :
         LET r == saveUserPhotos(list, lsUser, lsPool, db, q.user, q.pool)
         IN /\ ops + cost + Failures(q) <= MaxOps
            /\ ops' = ops + cost + Failures(q)
            /\ lsUser' = r.user
            /\ lsPool' = r.pool
            /\ UNCHANGED saves
            /\ lastOp' = [what EXCEPT !.snap = list, !.wr = r.wr, !.pw = r.pw,
                                      !.threw = r.threw, !.cloud = r.cloud]

\* a saveUserPhotos call whose images have decoded runs to its end
SaveDone(i) ==
  /\ i \in 1..Len(saves)
  /\ NoMicrotaskPending
  /\ \E q \in QuotaCases(saves[i]) :
       LET r == saveUserPhotos(saves[i], lsUser, lsPool, db, q.user, q.pool)
       IN /\ ops + Failures(q) <= MaxOps
          /\ ops' = ops + Failures(q)
          /\ lsUser' = r.user
          /\ lsPool' = r.pool
          /\ lastOp' = [Op("saveDone", "", <<>>, "none") EXCEPT
                          !.snap = saves[i], !.wr = r.wr, !.pw = r.pw,
                          !.threw = r.threw, !.cloud = r.cloud]
  /\ saves' = RemoveAt(saves, i)
  /\ UNCHANGED <<photos, isLoaded, userLocation, globalPhotos, nextId, apiKey,
                 db, remote, captions, edits, uploads>>
  /\ WallUnchanged
  /\ UNCHANGED deleted

\* ------------------------------------------------------------------ startup
Init ==
  /\ photos = <<>>
  /\ isLoaded = FALSE
  /\ userLocation = NoLoc
  /\ globalPhotos = <<>>
  /\ nextId = 0
  /\ apiKey \in BOOLEAN
  /\ db \in BOOLEAN
  /\ lsUser = Absent
  /\ lsPool = Absent
  /\ remote = <<>>
  /\ captions = {}
  /\ edits = <<>>
  /\ saves = <<>>
  /\ uploads = <<>>
  /\ ops = 0
  /\ lastOp = NoOp
  /\ view = "studio"
  /\ polaroids = <<>>
  /\ deleted = {}

\* the auto-save effect saving the collection as it is at mount
FirstSave_AtMount(stored) == <<>>

\* The list of the first saveUserPhotos call of a page: the auto-save effect
\* runs at mount with isLoaded = false and saves nothing, and runs again once
\* setPhotos(stored) and setIsLoaded(true) have rendered
FirstSave(stored) == stored

\* 1. Load Photos on Startup, and the first run of the auto-save effect with
\* isLoaded = true
Startup ==
  /\ ~isLoaded
  /\ LET stored == getUserPhotos(lsUser)
     IN /\ stored.t = "array"
        /\ photos' = stored.v
        /\ AutoSave(FirstSave(stored.v), Op("startup", "", <<>>, "none"), 0)
  /\ isLoaded' = TRUE
  /\ UNCHANGED <<userLocation, globalPhotos, nextId, apiKey, db, remote,
                 captions, edits, uploads>>
  /\ WallUnchanged
  /\ UNCHANGED deleted

\* the user can act: the App has loaded (it renders a spinner before), no
\* microtask is waiting and the operation budget is not spent
CanAct == isLoaded /\ NoMicrotaskPending /\ ops < MaxOps

\* the ids a callback may carry: those handed out so far
KnownIds == {randomUUID(n) : n \in 1..nextId}

\* what ipapi.co may answer in data.latitude / data.longitude
ApiCoords == {NoCoord, 48}
\* what navigator.geolocation may answer in pos.coords
GeoFixes == {<<0, 48>>}

\* initLocation(): the ipapi.co answer, or on its failure the geolocation
\* callback (which may never come). The answer is taken to come right after
\* startup or not in this session: later photos are captured the same way
\* whenever it came.
LocationArrives ==
  /\ isLoaded
  /\ NoMicrotaskPending
  /\ lastOp.op = "startup"
  /\ \/ \E lat \in ApiCoords, lng \in ApiCoords :
          userLocation' = IF Truthy(lat) /\ Truthy(lng)
                          THEN Loc(lat, lng, "Paris") ELSE userLocation
     \/ \E g \in GeoFixes : userLocation' = Loc(g[1], g[2], "Unknown Location")
  /\ lastOp' = Op("location", "", <<>>, "none")
  /\ UNCHANGED <<photos, isLoaded, globalPhotos, nextId, apiKey, db, lsUser,
                 lsPool, remote, captions, edits, saves, uploads, ops>>
  /\ WallUnchanged
  /\ UNCHANGED deleted

\* Math.random() * 10 - 5
Rotations == {3}

\* handleCapture(dataUrl) up to its await
Capture(dataUrl, rot) ==
  /\ CanAct
  /\ nextId < MaxPhotos
  /\ LET id == randomUUID(nextId + 1)
         newPhoto == NewPhoto(id, dataUrl, nextId + 1, rot, userLocation)
     IN /\ photos' = Append(photos, newPhoto)
        /\ captions' = captions \cup {id}
        /\ AutoSave(Append(photos, newPhoto), Op("capture", id, <<>>, "none"), 1)
  /\ nextId' = nextId + 1
  /\ UNCHANGED <<isLoaded, userLocation, globalPhotos, apiKey, db, remote,
                 edits, uploads>>
  /\ WallUnchanged
  /\ UNCHANGED deleted

\* handleCapture clearing the pending flag without patching the caption
CaptionPatch_FlagOnly(p, r) == [p EXCEPT !.isGeneratingCaption = FALSE]

\* the photo handleCapture makes of p when generatePhotoCaption has settled
\* with r: the try branch patches the caption, the catch branch does not
CaptionPatch(p, r) ==
  IF r.rejected
  THEN [p EXCEPT !.isGeneratingCaption = FALSE]
  ELSE [p EXCEPT !.caption = r.text, !.isGeneratingCaption = FALSE]

\* handleCapture after its await: generatePhotoCaption has settled
CaptionSettled(id, outcome) ==
  /\ id \in captions
  /\ apiKey \/ outcome = "content"
  /\ LET r == generatePhotoCaption(apiKey, outcome)
         updated == [i \in 1..Len(photos) |->
                       IF photos[i].id = id THEN CaptionPatch(photos[i], r)
                       ELSE photos[i]]
     IN /\ photos' = updated
        /\ AutoSave(updated,
                    [Op("captionSettled", id, <<>>,
                        IF apiKey THEN outcome ELSE "nokey") EXCEPT
                       !.ret = IF r.rejected THEN "rejected" ELSE r.text],
                    0)
  /\ captions' = captions \ {id}
  /\ UNCHANGED <<isLoaded, userLocation, globalPhotos, nextId, apiKey, db,
                 remote, edits, uploads>>
  /\ WallUnchanged
  /\ UNCHANGED deleted

\* where a drag may drop a photo
Positions == {<<120, 80>>}

\* a move that also turns the photo over
Moved_Turns(p, x, y) == [p EXCEPT !.x = x, !.y = y, !.rotation = 0 - p.rotation]

\* { ...p, x, y }
Moved(p, x, y) == [p EXCEPT !.x = x, !.y = y]

\* updatePhotoPosition(id, x, y)
UpdatePosition(id, x, y) ==
  /\ CanAct
  /\ LET updated == [i \in 1..Len(photos) |->
                       IF photos[i].id = id THEN Moved(photos[i], x, y)
                       ELSE photos[i]]
     IN /\ photos' = updated
        /\ AutoSave(updated,
                    [Op("updatePosition", id, <<>>, "none") EXCEPT !.args = <<x, y>>],
                    1)
  /\ UNCHANGED <<isLoaded, userLocation, globalPhotos, nextId, apiKey, db,
                 remote, captions, edits, uploads>>
  /\ WallUnchanged
  /\ UNCHANGED deleted

\* the progress a polaroid may report
ProgressValues == {40, 100}

\* an update that never lowers the progress a photo has
Progressed_NeverLowers(p, progress) ==
  [p EXCEPT !.developmentProgress = IF progress > @ THEN progress ELSE @]

\* { ...p, developmentProgress: progress }
Progressed(p, progress) == [p EXCEPT !.developmentProgress = progress]

\* prev.map(p => p.id === id ? { ...p, developmentProgress: progress } : p)
WithProgress(list, id, progress) ==
  [i \in 1..Len(list) |->
     IF list[i].id = id THEN Progressed(list[i], progress) ELSE list[i]]

\* updatePhotoProgress(id, progress)
UpdateProgress(id, progress) ==
  /\ CanAct
  /\ LET updated == WithProgress(photos, id, progress)
     IN /\ photos' = updated
        /\ AutoSave(updated,
                    [Op("updateProgress", id, <<>>, "none") EXCEPT !.args = <<progress>>],
                    1)
  /\ UNCHANGED <<isLoaded, userLocation, globalPhotos, nextId, apiKey, db,
                 remote, captions, edits, uploads>>
  /\ WallUnchanged
  /\ UNCHANGED deleted

\* deletePhoto(id)
DeletePhoto(id) ==
  /\ CanAct
  /\ photos' = FilterOut(photos, id)
  /\ AutoSave(FilterOut(photos, id), Op("delete", id, <<>>, "none"), 1)
  /\ UNCHANGED <<isLoaded, userLocation, globalPhotos, nextId, apiKey, db,
                 remote, captions, edits, uploads>>
  /\ WallUnchanged
  /\ deleted' = IF id \in Ids(photos) THEN deleted \cup {id} ELSE deleted

\* handleEditPhoto(id, prompt) up to its await
EditPhoto(id) ==
  /\ CanAct
  /\ LET updated == [i \in 1..Len(photos) |->
                       IF photos[i].id = id
                       THEN [photos[i] EXCEPT !.isGeneratingCaption = TRUE]
                       ELSE photos[i]]
     IN /\ photos' = updated
        /\ AutoSave(updated, Op("editPhoto", id, <<>>, "none"), 1)
  /\ IF id \in Ids(photos)
     THEN /\ Len(edits) < MaxPending
          /\ edits' = Append(edits, id)
     ELSE UNCHANGED edits
  /\ UNCHANGED <<isLoaded, userLocation, globalPhotos, nextId, apiKey, db,
                 remote, captions, uploads>>
  /\ WallUnchanged
  /\ UNCHANGED deleted

\* a patch that takes what editPhotoStyle gave also when it gave null
Restyled_TakesNull(p, newImageData) ==
  [p EXCEPT !.dataUrl = newImageData.img, !.isGeneratingCaption = FALSE]

\* { ...p, dataUrl: newImageData || p.dataUrl, isGeneratingCaption: false }
Restyled(p, newImageData) ==
  [p EXCEPT !.dataUrl = IF newImageData.isNull THEN p.dataUrl ELSE newImageData.img,
            !.isGeneratingCaption = FALSE]

\* handleEditPhoto after its await: editPhotoStyle has settled
EditSettled(i, outcome) ==
  /\ i \in 1..Len(edits)
  /\ apiKey \/ outcome = "error"
  /\ LET id == edits[i]
         newImageData == editPhotoStyle(apiKey, outcome)
         updated == [k \in 1..Len(photos) |->
                       IF photos[k].id = id THEN Restyled(photos[k], newImageData)
                       ELSE photos[k]]
     IN /\ photos' = updated
        /\ AutoSave(updated,
                    Op("editSettled", id, <<>>, IF apiKey THEN outcome ELSE "nokey"),
                    0)
  /\ edits' = RemoveAt(edits, i)
  /\ UNCHANGED <<isLoaded, userLocation, globalPhotos, nextId, apiKey, db,
                 remote, captions, uploads>>
  /\ WallUnchanged
  /\ UNCHANGED deleted

\* 35.6762 + (Math.random() - 0.5), 139.6503 + (Math.random() - 0.5), in
\* whole degrees
SynthLocs == {Loc(35, 139, "Unknown")}

\* handleToggleShare keeping the location a photo has, also when it has none
ShareLocs_Keep(p) == {p.location}

\* the location handleToggleShare gives photo p when it flips isPublic
ShareLocs(p) ==
  IF ~p.isPublic /\ (~p.location.has \/ ~Truthy(p.location.lat))
  THEN SynthLocs ELSE {p.location}

\* handleToggleShare calling uploadToCloud on every flip, also to private
ShareUploads_EveryFlip(p, updatedLoc) ==
  <<[p EXCEPT !.isPublic = TRUE, !.location = updatedLoc]>>

\* the photos handleToggleShare hands to uploadToCloud when it flips p
ShareUploads(p, updatedLoc) ==
  IF ~p.isPublic
  THEN <<[p EXCEPT !.isPublic = TRUE, !.location = updatedLoc]>>
  ELSE <<>>

\* the photos of `list` with this id (at most one: ids are unique)
WithId(list, id) == SelectSeq(list, LAMBDA p : p.id = id)

\* handleToggleShare(id)
ToggleShare(id) ==
  /\ CanAct
  /\ LET hit == WithId(photos, id)
     IN \E updatedLoc \in (IF hit # <<>> THEN ShareLocs(hit[1]) ELSE {NoLoc}) :
       LET updated == [i \in 1..Len(photos) |->
                         IF photos[i].id = id
                         THEN [photos[i] EXCEPT !.isPublic = ~photos[i].isPublic,
                                                !.location = updatedLoc]
                         ELSE photos[i]]
           toUpload == IF hit # <<>> THEN ShareUploads(hit[1], updatedLoc) ELSE <<>>
       IN /\ photos' = updated
          /\ Len(uploads) + Len(toUpload) <= MaxPending
          /\ uploads' = uploads \o [i \in 1..Len(toUpload) |->
                                      [photo |-> toUpload[i], phase |-> "compress"]]
          /\ AutoSave(updated, Op("toggleShare", id, toUpload, "none"), 1)
  /\ UNCHANGED <<isLoaded, userLocation, globalPhotos, nextId, apiKey, db,
                 remote, captions, edits>>
  /\ WallUnchanged
  /\ UNCHANGED deleted

\* uploadToCloud(photo) after compressImage: with no db the payload goes to
\* the local pool, with a db addDoc is sent
UploadCompressed(i, quota) ==
  /\ i \in 1..Len(uploads)
  /\ uploads[i].phase = "compress"
  /\ NoMicrotaskPending
  /\ LET payload == [uploads[i].photo EXCEPT
                       !.dataUrl = compressImage(uploads[i].photo.dataUrl)]
     IN IF db
        THEN /\ ~quota
             /\ uploads' = [uploads EXCEPT ![i] = [photo |-> payload, phase |-> "insert"]]
             /\ UNCHANGED <<lsPool, ops>>
             /\ lastOp' = Op("uploadCompressed", payload.id, <<>>, "none")
        ELSE /\ quota => ops < MaxOps
             /\ ops' = IF quota THEN ops + 1 ELSE ops
             /\ uploads' = RemoveAt(uploads, i)
             /\ lsPool' = addToSharedPoolLocal(lsPool, <<payload>>, quota)
             /\ lastOp' = [Op("uploadCompressed", payload.id, <<>>, "none") EXCEPT
                             !.pw = IF quota THEN "quota" ELSE "ok"]
  /\ UNCHANGED <<photos, isLoaded, userLocation, globalPhotos, nextId, apiKey,
                 db, lsUser, remote, captions, edits, saves>>
  /\ WallUnchanged
  /\ UNCHANGED deleted

\* uploadToCloud sending addDoc again after it was rejected
AfterInsert_Retries(ups, i, ok) == IF ok THEN RemoveAt(ups, i) ELSE ups

\* the uploadToCloud calls in flight once addDoc of the i-th has settled:
\* the call ends, whether addDoc resolved or rejected
AfterInsert(ups, i, ok) == RemoveAt(ups, i)

\* uploadToCloud(photo): addDoc has settled
UploadInsertSettled(i, ok) ==
  /\ i \in 1..Len(uploads)
  /\ uploads[i].phase = "insert"
  /\ NoMicrotaskPending
  /\ remote' = IF ok THEN Append(remote, uploads[i].photo) ELSE remote
  /\ uploads' = AfterInsert(uploads, i, ok)
  /\ lastOp' = Op("uploadSettled", uploads[i].photo.id, <<>>,
                  IF ok THEN "content" ELSE "error")
  /\ UNCHANGED <<photos, isLoaded, userLocation, globalPhotos, nextId, apiKey,
                 db, lsUser, lsPool, captions, edits, saves, ops>>
  /\ WallUnchanged
  /\ UNCHANGED deleted

\* what step 1 of getGlobalGallery may fetch
Fetches(dbv, docs) == IF dbv THEN QueryOrders(docs) \cup {<<>>} ELSE {<<>>}

\* 3. Load Global Gallery when opening map: loadGlobal()
LoadGlobal ==
  /\ CanAct
  /\ \E fetched \in Fetches(db, remote) :
       LET gallery == getGlobalGallery(fetched, lsPool, lsUser)
       IN /\ globalPhotos' = IF gallery.threw THEN globalPhotos ELSE gallery.list
          /\ lastOp' = [Op("getGlobalGallery", "", <<>>, "none") EXCEPT
                          !.snap = fetched, !.threw = gallery.threw]
  /\ ops' = ops + 1
  /\ UNCHANGED <<photos, isLoaded, userLocation, nextId, apiKey, db, lsUser,
                 lsPool, remote, captions, edits, saves, uploads>>
  /\ WallUnchanged
  /\ UNCHANGED deleted

\* the page is reloaded: the App state and every call waiting in the page
\* are gone; an addDoc already sent may still land
Reload ==
  /\ CanAct
  /\ photos' = <<>>
  /\ isLoaded' = FALSE
  /\ userLocation' = NoLoc
  /\ globalPhotos' = <<>>
  /\ captions' = {}
  /\ edits' = <<>>
  /\ saves' = <<>>
  /\ uploads' = SelectSeq(uploads, LAMBDA u : u.phase = "insert")
  /\ ops' = ops + 1
  /\ lastOp' = Op("reload", "", <<>>, "none")
  /\ UNCHANGED <<nextId, apiKey, db, lsUser, lsPool, remote>>
  /\ WallUnchanged
  /\ UNCHANGED deleted

Next ==
  \/ Startup
  \/ LocationArrives
  \/ \E d \in CaptureImages, rot \in Rotations : Capture(d, rot)
  \/ \E id \in captions, o \in ProviderOutcomes : CaptionSettled(id, o)
  \/ \E id \in KnownIds, pos \in Positions : UpdatePosition(id, pos[1], pos[2])
  \/ \E id \in KnownIds, pr \in ProgressValues : UpdateProgress(id, pr)
  \/ \E id \in KnownIds : DeletePhoto(id)
  \/ \E id \in KnownIds : EditPhoto(id)
  \/ \E i \in 1..Len(edits), o \in ProviderOutcomes : EditSettled(i, o)
  \/ \E id \in KnownIds : ToggleShare(id)
  \/ \E i \in 1..Len(uploads), q \in BOOLEAN : UploadCompressed(i, q)
  \/ \E i \in 1..Len(uploads), ok \in BOOLEAN : UploadInsertSettled(i, ok)
  \/ \E i \in 1..Len(saves) : SaveDone(i)
  \/ LoadGlobal
  \/ Reload

Spec == Init /\ [][Next]_vars

\* --------------------------------------------- the storage service on its own
\* photos as the three sources may hold them: one id in several sources with
\* different fields, public and private
StorePhoto(n, pub, cap) ==
  [NewPhoto(randomUUID(n), CamEdge, n, 3, Loc(48, 2, "Paris")) EXCEPT
     !.isPublic = pub, !.caption = cap, !.isGeneratingCaption = FALSE]

\* the sequences of at most two members of S
UpToTwo(S) == {<<>>} \cup {<<a>> : a \in S} \cup {<<a, b>> : a \in S, b \in S}

NoDuplicateIds(list) == \A i, j \in 1..Len(list) : list[i].id = list[j].id => i = j

\* what the user-photos key may hold: the App writes lists with distinct ids
UserLists ==
  {l \in UpToTwo({StorePhoto(1, TRUE, "local"), StorePhoto(1, FALSE, "local"),
                  StorePhoto(2, TRUE, "local")}) : NoDuplicateIds(l)}

\* what the pool key may hold (one entry carries the id of a curated photo)
PoolLists ==
  UpToTwo({StorePhoto(1, TRUE, "pool"), StorePhoto(2, TRUE, "pool"),
           [StorePhoto(2, TRUE, "pool") EXCEPT !.id = "case-tokyo"]})

\* what the remote collection may hold: a photo shared twice gives two
\* documents that carry the same photo id
RemoteLists ==
  UpToTwo({StorePhoto(1, TRUE, "remote"), StorePhoto(1, TRUE, "remote again"),
           StorePhoto(2, TRUE, "remote")})

\* texts that are no array of photos
OtherTexts == {Absent, Stored("empty", <<>>), Stored("garbage", <<>>),
               Stored("object", <<>>), Stored("null", <<>>)}

InitStore ==
  /\ photos = <<>>
  /\ isLoaded = TRUE
  /\ userLocation = NoLoc
  /\ globalPhotos = <<>>
  /\ nextId = 0
  /\ apiKey = FALSE
  /\ db \in BOOLEAN
  /\ lsUser \in OtherTexts \cup {JSONstringify(l) : l \in UserLists}
  /\ lsPool \in OtherTexts \cup {JSONstringify(l) : l \in PoolLists}
  /\ remote \in RemoteLists
  /\ captions = {}
  /\ edits = <<>>
  /\ saves = <<>>
  /\ uploads = <<>>
  /\ ops = 0
  /\ lastOp = NoOp
  /\ view = "studio"
  /\ polaroids = <<>>
  /\ deleted = {}

\* a call of storageService.getUserPhotos()
CallGetUserPhotos ==
  /\ lastOp.op # "getUserPhotos"
  /\ LET r == getUserPhotos(lsUser)
     IN lastOp' = [Op("getUserPhotos", "", <<>>, "none") EXCEPT !.snap = r.v, !.ret = r.t]
  /\ UNCHANGED <<photos, isLoaded, userLocation, globalPhotos, nextId, apiKey,
                 db, lsUser, lsPool, remote, captions, edits, saves, uploads, ops>>
  /\ WallUnchanged
  /\ UNCHANGED deleted

\* a call of storageService.getSharedPoolLocal()
CallGetSharedPoolLocal ==
  /\ lastOp.op # "getSharedPoolLocal"
  /\ LET r == getSharedPoolLocal(lsPool)
     IN lastOp' = [Op("getSharedPoolLocal", "", <<>>, "none") EXCEPT !.snap = r.v, !.ret = r.t]
  /\ UNCHANGED <<photos, isLoaded, userLocation, globalPhotos, nextId, apiKey,
                 db, lsUser, lsPool, remote, captions, edits, saves, uploads, ops>>
  /\ WallUnchanged
  /\ UNCHANGED deleted

NextStore ==
  \/ CallGetUserPhotos
  \/ CallGetSharedPoolLocal
  \/ LoadGlobal

SpecStore == InitStore /\ [][NextStore]_vars

\* ------------------------------------------------ the pool on its own
\* the lists addToSharedPoolLocal may be handed: one id may come twice, with
\* different fields
PoolInputs ==
  UpToTwo({StorePhoto(1, TRUE, "new"), StorePhoto(1, TRUE, "newer"),
           StorePhoto(2, TRUE, "new")})

\* a call of storageService.addToSharedPoolLocal(list)
CallAddToSharedPoolLocal(list, quota) ==
  /\ ops < MaxOps
  /\ quota => getSharedPoolLocal(lsPool).t = "array"
  /\ lsPool' = addToSharedPoolLocal(lsPool, list, quota)
  /\ ops' = ops + 1
  /\ lastOp' = [Op("addToSharedPoolLocal", "", <<>>, "none") EXCEPT
                  !.snap = list,
                  !.pw = IF quota THEN "quota"
                         ELSE IF getSharedPoolLocal(lsPool).t # "array" THEN "threw"
                         ELSE "ok"]
  /\ UNCHANGED <<photos, isLoaded, userLocation, globalPhotos, nextId, apiKey,
                 db, lsUser, remote, captions, edits, saves, uploads>>
  /\ WallUnchanged
  /\ UNCHANGED deleted

\* the pool key holds any of its texts; nothing else is stored
InitPool ==
  /\ photos = <<>>
  /\ isLoaded = TRUE
  /\ userLocation = NoLoc
  /\ globalPhotos = <<>>
  /\ nextId = 0
  /\ apiKey = FALSE
  /\ db = FALSE
  /\ lsUser = Absent
  /\ lsPool \in OtherTexts \cup {JSONstringify(l) : l \in PoolLists}
  /\ remote = <<>>
  /\ captions = {}
  /\ edits = <<>>
  /\ saves = <<>>
  /\ uploads = <<>>
  /\ ops = 0
  /\ lastOp = NoOp
  /\ view = "studio"
  /\ polaroids = <<>>
  /\ deleted = {}

NextPool ==
  \/ \E list \in PoolInputs, quota \in BOOLEAN : CallAddToSharedPoolLocal(list, quota)
  \/ CallGetSharedPoolLocal

SpecPool == InitPool /\ [][NextPool]_vars

\* ------------------------------------------------- the developing polaroid
\* developmentProgress is counted in half percents: the timer adds 0.5, a
\* shake adds 2, and a photo is developed at 100
TickStep == 1
ShakeBoost == 4
FullyDeveloped == 200

\* Math.min(a, b)
Min(a, b) == IF a < b THEN a ELSE b

\* a polaroid that starts developing from nothing whenever it is mounted
SeedProgress_Zero(p) == 0

\* useState(photo.developmentProgress || 0): where a mounted polaroid starts
SeedProgress(p) == p.developmentProgress

\* setDevelopmentProgress(prev => Math.min(prev + 0.5, 100))
Ticked(v) == Min(v + TickStep, FullyDeveloped)

\* if (speed > 15 && developmentProgress < 100)
\*   setDevelopmentProgress(prev => Math.min(prev + 2, 100))
Shaken(v) == IF v < FullyDeveloped THEN Min(v + ShakeBoost, FullyDeveloped) ELSE v

\* WallSection rendering `list`: one DraggablePolaroid per photo, keyed by id
MountAll(list) == [id \in Ids(list) |-> SeedProgress(WithId(list, id)[1])]

\* the cleanups of the polaroids `mounted` when the wall goes: each calls
\* onUpdateProgress(photo.id, progressRef.current)
ReportAll(list, mounted) ==
  [i \in 1..Len(list) |->
     IF list[i].id \in DOMAIN mounted
     THEN Progressed(list[i], mounted[list[i].id]) ELSE list[i]]

\* a photo on the wall some time after its capture: the caption has settled
WallPhoto ==
  [NewPhoto(randomUUID(1), CamEdge, 1, 3, NoLoc) EXCEPT
     !.caption = "Memories captured...", !.isGeneratingCaption = FALSE]

\* the studio with one photo on the wall, saved, its polaroid just mounted;
\* the storage has room and the other operations are done
InitDevelop ==
  /\ photos = <<WallPhoto>>
  /\ isLoaded = TRUE
  /\ userLocation = NoLoc
  /\ globalPhotos = <<>>
  /\ nextId = 1
  /\ apiKey = FALSE
  /\ db = FALSE
  /\ lsUser = JSONstringify(<<WallPhoto>>)
  /\ lsPool = Absent
  /\ remote = <<>>
  /\ captions = {}
  /\ edits = <<>>
  /\ saves = <<>>
  /\ uploads = <<>>
  /\ ops = MaxOps
  /\ lastOp = NoOp
  /\ view = "studio"
  /\ polaroids = MountAll(<<WallPhoto>>)
  /\ deleted = {}

\* the interval of a mounted polaroid fires
TimerTick(id) ==
  /\ id \in DOMAIN polaroids
  /\ polaroids' = [polaroids EXCEPT ![id] = Ticked(@)]
  /\ lastOp' = Op("tick", id, <<>>, "none")
  /\ UNCHANGED <<photos, isLoaded, userLocation, globalPhotos, nextId, apiKey,
                 db, lsUser, lsPool, remote, captions, edits, saves, uploads,
                 ops, view, deleted>>

\* handleMove of a polaroid dragged fast: onMove(photo.id, newX, newY) and
\* the shake boost
Shake(id, x, y) ==
  /\ id \in DOMAIN polaroids
  /\ LET updated == [i \in 1..Len(photos) |->
                       IF photos[i].id = id THEN Moved(photos[i], x, y)
                       ELSE photos[i]]
     IN /\ photos' = updated
        /\ AutoSave(updated, Op("shake", id, <<>>, "none"), 0)
  /\ polaroids' = [polaroids EXCEPT ![id] = Shaken(@)]
  /\ UNCHANGED <<isLoaded, userLocation, globalPhotos, nextId, apiKey, db,
                 remote, captions, edits, uploads, view, deleted>>

\* setView('map'): the wall unmounts and every polaroid reports its progress
OpenMap ==
  /\ view = "studio"
  /\ view' = "map"
  /\ LET updated == ReportAll(photos, polaroids)
     IN /\ photos' = updated
        /\ AutoSave(updated, Op("openMap", "", <<>>, "none"), 0)
  /\ polaroids' = <<>>
  /\ UNCHANGED <<isLoaded, userLocation, globalPhotos, nextId, apiKey, db,
                 remote, captions, edits, uploads, deleted>>

\* setView('studio'): the wall mounts, every polaroid seeded from its photo
CloseMap ==
  /\ view = "map"
  /\ view' = "studio"
  /\ polaroids' = MountAll(photos)
  /\ lastOp' = Op("closeMap", "", <<>>, "none")
  /\ UNCHANGED <<photos, isLoaded, userLocation, globalPhotos, nextId, apiKey,
                 db, lsUser, lsPool, remote, captions, edits, saves, uploads, ops,
                 deleted>>

NextDevelop ==
  \/ \E id \in DOMAIN polaroids : TimerTick(id)
  \/ \E id \in DOMAIN polaroids, pos \in Positions : Shake(id, pos[1], pos[2])
  \/ OpenMap
  \/ CloseMap

SpecDevelop == InitDevelop /\ [][NextDevelop]_vars

\* ------------------------------------------------------ sharing one photo
\* the studio with one photo on the wall, saved, not yet shared
InitShare ==
  /\ photos \in {<<[WallPhoto EXCEPT !.dataUrl = d]>> : d \in CaptureImages}
  /\ isLoaded = TRUE
  /\ userLocation = NoLoc
  /\ globalPhotos = <<>>
  /\ nextId = 1
  /\ apiKey = FALSE
  /\ db \in BOOLEAN
  /\ lsUser = JSONstringify(CompressPhotos(photos))
  /\ lsPool = Absent
  /\ remote = <<>>
  /\ captions = {}
  /\ edits = <<>>
  /\ saves = <<>>
  /\ uploads = <<>>
  /\ ops = 0
  /\ lastOp = NoOp
  /\ view = "studio"
  /\ polaroids = <<>>
  /\ deleted = {}

NextShare ==
  \/ \E id \in KnownIds : ToggleShare(id)
  \/ \E i \in 1..Len(uploads), q \in BOOLEAN : UploadCompressed(i, q)
  \/ \E i \in 1..Len(uploads), ok \in BOOLEAN : UploadInsertSettled(i, ok)
  \/ \E i \in 1..Len(saves) : SaveDone(i)
  \/ LoadGlobal

SpecShare == InitShare /\ [][NextShare]_vars

\* ---------------------------------------------------------------- claims
\* the list stored under a key when it is a valid array, else the empty list
StoredList(s) == IF s.kind = "array" THEN s.val ELSE <<>>

\* the user's stored public photos
UserPublicSet == {p \in {StoredList(lsUser)[i] : i \in 1..Len(StoredList(lsUser))} : p.isPublic}

\* the last step was a getGlobalGallery call that returned a list
GalleryReturned == lastOp.op = "getGlobalGallery" /\ ~lastOp.threw

\* the remote/fallback input of that call: what was fetched, or on an empty
\* fetch the curated photos and the pool
GalleryRemoteInput ==
  IF lastOp.snap # <<>> THEN lastOp.snap
  ELSE INITIAL_COMMUNITY_PHOTOS \o StoredList(lsPool)

\* C1: the list getGlobalGallery returns holds exactly one entry per photo id
\* of its inputs, and for an id that is both among the user's stored public
\* photos and in the remote/fallback input the entry is the user's copy.
C1_MergeDedup ==
  GalleryReturned =>
    /\ NoDuplicateIds(globalPhotos)
    /\ Ids(globalPhotos) = Ids(GalleryRemoteInput) \cup {p.id : p \in UserPublicSet}
    /\ \A p \in UserPublicSet :
         p.id \in Ids(GalleryRemoteInput) =>
           \E i \in 1..Len(globalPhotos) : globalPhotos[i] = p

\* C1 witness: a gallery was returned for an id that the user's public
\* photos and the fetched remote documents both hold, with different fields
C1_Witness ==
  /\ GalleryReturned
  /\ lastOp.snap # <<>>
  /\ \E p \in UserPublicSet : \E i \in 1..Len(lastOp.snap) :
       lastOp.snap[i].id = p.id /\ lastOp.snap[i] # p

\* C2: getGlobalGallery falls back exactly when the fetch yields no photo:
\* then the ids it returns are those of the curated photos, the pool and the
\* user's public photos (so the result is not empty); otherwise they are the
\* fetched ids and the user's public ids, and no curated or pool photo is added.
C2_Fallback ==
  GalleryReturned =>
    IF lastOp.snap = <<>>
    THEN /\ Ids(globalPhotos) = Ids(INITIAL_COMMUNITY_PHOTOS) \cup Ids(StoredList(lsPool))
                                  \cup {p.id : p \in UserPublicSet}
         /\ globalPhotos # <<>>
    ELSE /\ Ids(globalPhotos) = Ids(lastOp.snap) \cup {p.id : p \in UserPublicSet}
         /\ \A i \in 1..Len(globalPhotos) :
              \/ \E k \in 1..Len(lastOp.snap) : globalPhotos[i] = lastOp.snap[k]
              \/ globalPhotos[i] \in UserPublicSet

\* C2 witness: a remote backend is configured, the fetch gave nothing, and the
\* gallery returned holds a pool photo
C2_Witness ==
  /\ GalleryReturned
  /\ db
  /\ lastOp.snap = <<>>
  /\ StoredList(lsPool) # <<>>
  /\ Ids(StoredList(lsPool)) \subseteq Ids(globalPhotos)

\* C7 (as claimed): whatever the two keys hold, getUserPhotos and
\* getSharedPoolLocal return a list of photos (the stored list when it is
\* valid, the empty list otherwise) and getGlobalGallery does not throw.
C7_ReadsNeverFail ==
  /\ lastOp.op = "getUserPhotos" =>
       lastOp.ret = "array" /\ lastOp.snap = StoredList(lsUser)
  /\ lastOp.op = "getSharedPoolLocal" =>
       lastOp.ret = "array" /\ lastOp.snap = StoredList(lsPool)
  /\ lastOp.op = "getGlobalGallery" => ~lastOp.threw

\* ------------------------------------------------------- claims on the App
\* C3: in every reachable state every photo of the collection that is public
\* has a location, with both its latitude and its longitude set.
C3_PublicHasLocation ==
  \A i \in 1..Len(photos) :
    photos[i].isPublic =>
      /\ photos[i].location.has
      /\ photos[i].location.lat # NoCoord
      /\ photos[i].location.lng # NoCoord

\* C3 witness: a photo that had no usable location was shared and carries the
\* location handleToggleShare made up for it
C3_Witness ==
  /\ lastOp.op = "toggleShare"
  /\ \E i \in 1..Len(photos) :
       /\ photos[i].id = lastOp.id
       /\ photos[i].isPublic
       /\ photos[i].location \in SynthLocs

\* the step is handleToggleShare(id)
ToggleStep == lastOp'.op = "toggleShare"

\* C4: a toggleShare that makes an existing photo public hands uploadToCloud
\* exactly one photo, the copy of that photo with isPublic = true and the
\* location the photo has afterwards; one that makes a photo private hands it
\* nothing, and the remote collection and the ids of the pool stay; one for
\* an id not in the collection leaves the collection and uploads nothing.
C4_UploadOnShare ==
  [][ToggleStep =>
       LET hit   == WithId(photos, lastOp'.id)
           after == WithId(photos', lastOp'.id)
       IN IF hit = <<>>
          THEN /\ photos' = photos
               /\ lastOp'.ups = <<>>
               /\ uploads' = uploads
               /\ remote' = remote
          ELSE IF ~hit[1].isPublic
          THEN /\ Len(after) = 1
               /\ after[1].isPublic
               /\ lastOp'.ups = <<[hit[1] EXCEPT !.isPublic = TRUE,
                                                 !.location = after[1].location]>>
               /\ lastOp'.ups[1].location.has
               /\ uploads' = Append(uploads, [photo |-> lastOp'.ups[1],
                                              phase |-> "compress"])
          ELSE /\ Len(after) = 1
               /\ ~after[1].isPublic
               /\ lastOp'.ups = <<>>
               /\ uploads' = uploads
               /\ remote' = remote
               /\ Ids(StoredList(lsPool)) \subseteq Ids(StoredList(lsPool'))
     ]_vars

\* C4 witness: the last step shared a photo that had no usable location and
\* handed uploadToCloud one photo, the copy with the made-up location
C4_Witness ==
  /\ lastOp.op = "toggleShare"
  /\ Len(lastOp.ups) = 1
  /\ lastOp.ups[1].id = lastOp.id
  /\ lastOp.ups[1].location \in SynthLocs

\* the step is handleCapture up to its await
CaptureStep == lastOp'.op = "capture"

\* the step is the continuation of handleCapture
CaptionStep == lastOp'.op = "captionSettled"

\* C5: right after a capture the collection holds the new photo, with the
\* pending flag set, progress 0, an empty caption and not public, and its
\* captioning call is in flight; when that call resolves with a text, the
\* photo (if still in the collection) has that text as its caption and the
\* pending flag cleared.
C5_CaptureThenCaption ==
  [][/\ CaptureStep =>
          LET new == WithId(photos', lastOp'.id)
          IN /\ lastOp'.id \notin Ids(photos)
             /\ Len(photos') = Len(photos) + 1
             /\ Len(new) = 1
             /\ new[1].isGeneratingCaption
             /\ new[1].developmentProgress = 0
             /\ new[1].caption = ""
             /\ ~new[1].isPublic
             /\ lastOp'.id \in captions'
     /\ (CaptionStep /\ lastOp'.ret # "rejected") =>
          /\ lastOp'.id \notin captions'
          /\ \A i \in 1..Len(photos') :
               photos'[i].id = lastOp'.id =>
                 /\ photos'[i].caption = lastOp'.ret
                 /\ ~photos'[i].isGeneratingCaption
    ]_vars

\* C5 witness: the provider's text has become the caption of a photo that is
\* in the collection
C5_Witness ==
  /\ lastOp.op = "captionSettled"
  /\ lastOp.out = "content"
  /\ \E i \in 1..Len(photos) :
       photos[i].id = lastOp.id /\ photos[i].caption = "Nice!"
                                /\ ~photos[i].isGeneratingCaption

\* the step is the continuation of handleCapture after a captioning call that
\* failed: the provider gave an error, or no API key is set
CaptionFailedStep == CaptionStep /\ lastOp'.out \in {"error", "nokey"}

\* C6 (as claimed): when the captioning call fails, the pending flag of the
\* photo is cleared and its caption is left empty.
C6_FailureLeavesCaptionEmpty ==
  [][CaptionFailedStep =>
       \A i \in 1..Len(photos') :
         photos'[i].id = lastOp'.id =>
           /\ ~photos'[i].isGeneratingCaption
           /\ photos'[i].caption = ""
    ]_vars

\* C6 (amended): when the captioning call fails, the call still resolves, the
\* pending flag of the photo is cleared and its caption is the default text of
\* the failure: "Snap!" after a provider error, "Memories captured..." with no
\* API key; nothing is thrown.
C6_FailureGivesDefaultCaption ==
  [][CaptionFailedStep =>
       /\ lastOp'.ret # "rejected"
       /\ ~lastOp'.threw
       /\ \A i \in 1..Len(photos') :
            photos'[i].id = lastOp'.id =>
              /\ ~photos'[i].isGeneratingCaption
              /\ photos'[i].caption = IF lastOp'.out = "error" THEN "Snap!"
                                      ELSE "Memories captured..."
    ]_vars

\* C6 witness: a provider error has settled the captioning call of a photo
\* that is in the collection
C6_Witness ==
  /\ lastOp.op = "captionSettled"
  /\ lastOp.out = "error"
  /\ \E i \in 1..Len(photos) :
       photos[i].id = lastOp.id /\ ~photos[i].isGeneratingCaption

\* the record a successful saveUserPhotos(list) is to leave: the list itself,
\* payloads above the threshold compressed, the others as they are
SavedForm(list) ==
  Stored("array",
         [i \in 1..Len(list) |->
            IF list[i].dataUrl.len > SizeThreshold
            THEN [list[i] EXCEPT !.dataUrl = compressImage(list[i].dataUrl)]
            ELSE list[i]])

\* the step ends a saveUserPhotos call whose write of the user record succeeded
SaveOkStep == lastOp'.wr = "ok"

\* C8: a successful saveUserPhotos(list) leaves as the user record exactly the
\* list (same ids, same order, nothing of the prior record), payloads above
\* the threshold compressed and the others unchanged; a second successful
\* save of the same list leaves the record the first one left.
C8_SaveReplaces ==
  [][SaveOkStep =>
       /\ lsUser' = SavedForm(lastOp'.snap)
       /\ [i \in 1..Len(lsUser'.val) |-> lsUser'.val[i].id]
            = [i \in 1..Len(lastOp'.snap) |-> lastOp'.snap[i].id]
       /\ (lastOp.wr = "ok" /\ lastOp.snap = lastOp'.snap) => lsUser' = lsUser
    ]_vars

\* C8 witness: a save has succeeded for a list with a payload above the
\* threshold (stored compressed) and a payload at the threshold (stored
\* unchanged)
C8_Witness ==
  /\ lastOp.wr = "ok"
  /\ lsUser = SavedForm(lastOp.snap)
  /\ \E i \in 1..Len(lastOp.snap) :
       /\ lastOp.snap[i].dataUrl = CamBig
       /\ lsUser.val[i].dataUrl.fmt = "jpeg60"
  /\ \E i \in 1..Len(lastOp.snap) :
       /\ lastOp.snap[i].dataUrl = CamEdge
       /\ lsUser.val[i].dataUrl = CamEdge

\* the ids of the public photos of a list
PublicIds(list) == Ids(FilterPublic(list))

\* the step ends a saveUserPhotos call in which no write failed
SaveCleanStep == lastOp'.wr = "ok" /\ lastOp'.pw # "quota"

\* C9 (as claimed): after a saveUserPhotos(list) without storage failure every
\* public photo of the list is in the pool by id, with a remote backend
\* configured or not.
C9_PublicInPool ==
  [][SaveCleanStep => PublicIds(lastOp'.snap) \subseteq Ids(StoredList(lsPool'))]_vars

\* C9 (amended): after a saveUserPhotos(list) without storage failure, with no
\* remote backend configured every public photo of the list is in the pool by
\* id; with one configured saveUserPhotos leaves the pool as it was.
C9_PublicInPoolWithoutBackend ==
  [][SaveCleanStep =>
       IF db THEN lsPool' = lsPool
       ELSE PublicIds(lastOp'.snap) \subseteq Ids(StoredList(lsPool'))
    ]_vars

\* C9 witness: with no remote backend, a save of a list with a public photo
\* has ended without failure and the pool holds the photo
C9_Witness ==
  /\ ~db
  /\ lastOp.wr = "ok"
  /\ lastOp.pw = "ok"
  /\ PublicIds(lastOp.snap) # {}
  /\ PublicIds(lastOp.snap) \subseteq Ids(StoredList(lsPool))

\* the step ends a saveUserPhotos call whose write of the user record failed
\* for lack of room
SaveQuotaStep == lastOp'.wr = "quota"

\* the step ends a saveUserPhotos call whose write of the pool failed for
\* lack of room
PoolQuotaStep == lastOp'.wr = "ok" /\ lastOp'.pw = "quota"

\* the collection after the step is the one saveUserPhotos was called for:
\* the save has not touched it
CollectionKept ==
  IF lastOp'.op = "saveDone" THEN photos' = photos ELSE photos' = lastOp'.snap

\* C10: when the write of the user record fails for lack of room,
\* saveUserPhotos does not throw, the user record and the pool are what they
\* were, and the collection in memory is untouched; when the write of the pool
\* fails, saveUserPhotos does not throw either, and the pool and the
\* collection are what they were.
C10_QuotaFailureHarmless ==
  [][/\ SaveQuotaStep =>
          /\ ~lastOp'.threw
          /\ lsUser' = lsUser
          /\ lsPool' = lsPool
          /\ CollectionKept
     /\ PoolQuotaStep =>
          /\ ~lastOp'.threw
          /\ lsPool' = lsPool
          /\ CollectionKept
    ]_vars

\* C10 witness: the write of the user record has failed for a list with a
\* public photo that the pool does not hold, with no remote backend, over a
\* record that differs from the list
C10_Witness ==
  /\ lastOp.wr = "quota"
  /\ ~db
  /\ lsUser # SavedForm(lastOp.snap)
  /\ photos = lastOp.snap
  /\ PublicIds(lastOp.snap) # {}
  /\ ~(PublicIds(lastOp.snap) \subseteq Ids(StoredList(lsPool)))

\* ------------------------------------------------------ claims on the pool
\* the step is an addToSharedPoolLocal call
AddToPoolStep == lastOp'.op = "addToSharedPoolLocal"

\* the last entry of a list with this id is its i-th
LastOfItsId(list, i) == \A j \in (i + 1)..Len(list) : list[j].id # list[i].id

\* C11: addToSharedPoolLocal(list) whose write succeeds leaves as the pool the
\* prior pool merged with the list by id: a prior entry whose id is not in the
\* list is kept as it is, every id of the list is there with the fields of its
\* last occurrence in the list, nothing else is there, and no id is there
\* twice. A call whose write fails, or that finds stored JSON that is no
\* array, leaves the pool as it was.
C11_PoolMerge ==
  [][AddToPoolStep =>
       LET prior == StoredList(lsPool)
           given == lastOp'.snap
           after == StoredList(lsPool')
       IN IF lastOp'.pw = "ok"
          THEN /\ lsPool'.kind = "array"
               /\ NoDuplicateIds(after)
               /\ Ids(after) = Ids(prior) \cup Ids(given)
               /\ \A i \in 1..Len(prior) :
                    prior[i].id \notin Ids(given) =>
                      \E k \in 1..Len(after) : after[k] = prior[i]
               /\ \A i \in 1..Len(given) :
                    LastOfItsId(given, i) =>
                      \E k \in 1..Len(after) : after[k] = given[i]
          ELSE lsPool' = lsPool
    ]_vars

\* C11 witness: a list with one id twice, with different fields, was merged
\* into a pool that held that id and another one; the pool has the fields of
\* the second occurrence and still has the other entry
C11_Witness ==
  /\ lastOp.op = "addToSharedPoolLocal"
  /\ lastOp.pw = "ok"
  /\ Len(lastOp.snap) = 2
  /\ lastOp.snap[1].id = lastOp.snap[2].id
  /\ lastOp.snap[1] # lastOp.snap[2]
  /\ \E k \in 1..Len(StoredList(lsPool)) : StoredList(lsPool)[k] = lastOp.snap[2]
  /\ \E k \in 1..Len(StoredList(lsPool)) :
       /\ StoredList(lsPool)[k].id # lastOp.snap[2].id
       /\ StoredList(lsPool)[k].caption = "pool"

\* ---------------------------------------------------- claims on the upload
\* the step is uploadToCloud from the end of compressImage on
UploadStep == lastOp'.op = "uploadCompressed"

\* the step is the end of uploadToCloud's addDoc
InsertStep == lastOp'.op = "uploadSettled"

\* the payload of an uploadToCloud(photo) call: the photo with its image
\* passed through compressImage
UploadPayload(photo) == [photo EXCEPT !.dataUrl = compressImage(photo.dataUrl)]

\* C12: uploadToCloud never throws. With no remote backend it puts the
\* compressed copy of the photo in the pool under the photo's id when the
\* pool's write succeeds (and leaves the pool as it was when the write fails
\* for lack of room), and the remote collection stays. With a remote backend
\* it never writes the pool, and when addDoc succeeds the remote collection
\* has one more document, the compressed copy of the photo.
C12_UploadRouting ==
  [][/\ UploadStep =>
          /\ ~lastOp'.threw
          /\ remote' = remote
          /\ \E i \in 1..Len(uploads) :
               /\ uploads[i].phase = "compress"
               /\ uploads[i].photo.id = lastOp'.id
               /\ IF db
                  THEN /\ lsPool' = lsPool
                       /\ uploads' = [uploads EXCEPT ![i] =
                                        [photo |-> UploadPayload(uploads[i].photo),
                                         phase |-> "insert"]]
                  ELSE /\ uploads' = RemoveAt(uploads, i)
                       /\ IF lastOp'.pw = "ok"
                          THEN /\ NoDuplicateIds(StoredList(lsPool'))
                               /\ \E k \in 1..Len(StoredList(lsPool')) :
                                    StoredList(lsPool')[k] = UploadPayload(uploads[i].photo)
                               /\ Ids(StoredList(lsPool')) =
                                    Ids(StoredList(lsPool)) \cup {lastOp'.id}
                          ELSE lsPool' = lsPool
     /\ InsertStep =>
          /\ ~lastOp'.threw
          /\ db
          /\ lsPool' = lsPool
          /\ \E i \in 1..Len(uploads) :
               /\ uploads[i].phase = "insert"
               /\ uploads[i].photo.id = lastOp'.id
               /\ uploads[i].photo.dataUrl.fmt = "jpeg60"
               /\ remote' = IF lastOp'.out = "content"
                            THEN Append(remote, uploads[i].photo) ELSE remote
    ]_vars

\* C12 witness: with no remote backend an upload has put the compressed copy
\* of a shared photo in the pool; the collection holds the photo uncompressed
C12_Witness ==
  /\ ~db
  /\ lastOp.op = "uploadCompressed"
  /\ lastOp.pw = "ok"
  /\ \E k \in 1..Len(StoredList(lsPool)) :
       /\ StoredList(lsPool)[k].id = lastOp.id
       /\ StoredList(lsPool)[k].dataUrl.fmt = "jpeg60"
       /\ \E i \in 1..Len(photos) :
            /\ photos[i].id = lastOp.id
            /\ photos[i].dataUrl.fmt = "jpeg90"

\* the step is the end of an addDoc that failed
InsertFailedStep == InsertStep /\ lastOp'.out = "error"

\* C13: when addDoc of uploadToCloud fails, nothing is thrown, the call ends
\* without sending again, and the collection, the user record, the pool, the
\* remote collection and the saves in flight are what they were.
C13_InsertFailureHarmless ==
  [][InsertFailedStep =>
       /\ ~lastOp'.threw
       /\ photos' = photos
       /\ lsUser' = lsUser
       /\ lsPool' = lsPool
       /\ remote' = remote
       /\ saves' = saves
       /\ Len(uploads') = Len(uploads) - 1
       /\ \A u \in {uploads'[k] : k \in 1..Len(uploads')} :
            \E k \in 1..Len(uploads) : uploads[k] = u
    ]_vars

\* C13 witness: addDoc has failed for a photo that is in the collection and
\* public, and no upload is in flight any more
C13_Witness ==
  /\ lastOp.op = "uploadSettled"
  /\ lastOp.out = "error"
  /\ uploads = <<>>
  /\ remote = <<>>
  /\ \E i \in 1..Len(photos) : photos[i].id = lastOp.id /\ photos[i].isPublic

\* --------------------------------------------------- claims on the handlers
\* the step is deletePhoto(id)
DeleteStep == lastOp'.op = "delete"

\* the step ends a saveUserPhotos call that had waited for its images
SaveDoneStep == lastOp'.op = "saveDone"

\* every entry of the pool is still in the pool after the step, except that
\* an entry may have been replaced by the public photo of that id in the list
\* just saved
PoolEntriesKept ==
  \A k \in 1..Len(StoredList(lsPool)) :
    \/ \E j \in 1..Len(StoredList(lsPool')) : StoredList(lsPool')[j] = StoredList(lsPool)[k]
    \/ StoredList(lsPool)[k].id \in PublicIds(lastOp'.snap)

\* C14: deletePhoto(id) removes from the collection the photo with that id and
\* nothing else, the other photos staying as they are and in their order;
\* neither the delete nor a save that ends later removes a document of the
\* remote collection or an entry of the pool.
C14_DeleteFrame ==
  [][/\ DeleteStep =>
          /\ photos' = SelectSeq(photos, LAMBDA q : q.id # lastOp'.id)
          /\ lastOp'.id \notin Ids(photos')
          /\ Len(photos') >= Len(photos) - 1
          /\ remote' = remote
          /\ uploads' = uploads
          /\ PoolEntriesKept
     /\ SaveDoneStep =>
          /\ photos' = photos
          /\ remote' = remote
          /\ PoolEntriesKept
    ]_vars

\* C14 witness: a photo that had been shared was deleted and saved away, and
\* the pool still holds the deleted photo
C14_Witness ==
  /\ lastOp.op = "delete"
  /\ lastOp.wr = "ok"
  /\ lastOp.id \notin Ids(photos)
  /\ lastOp.id \in Ids(StoredList(lsPool))

\* the step is handleEditPhoto up to its await
EditStep == lastOp'.op = "editPhoto"

\* the step is the continuation of handleEditPhoto
EditSettledStep == lastOp'.op = "editSettled"

\* C15: handleEditPhoto(id) for a photo of the collection sets its pending
\* flag and nothing else, and puts an editPhotoStyle call in flight; when the
\* call settles, the photo (if still in the collection) has the returned image
\* if there is one and its own image otherwise, the pending flag is cleared,
\* and no other field and no other photo changes.
C15_EditStyle ==
  [][/\ EditStep =>
          /\ Len(photos') = Len(photos)
          /\ \A i \in 1..Len(photos) :
               photos'[i] = IF photos[i].id = lastOp'.id
                            THEN [photos[i] EXCEPT !.isGeneratingCaption = TRUE]
                            ELSE photos[i]
          /\ edits' = IF lastOp'.id \in Ids(photos)
                      THEN Append(edits, lastOp'.id) ELSE edits
     /\ EditSettledStep =>
          /\ Len(photos') = Len(photos)
          /\ Len(edits') = Len(edits) - 1
          /\ \A i \in 1..Len(photos) :
               photos'[i] =
                 IF photos[i].id # lastOp'.id THEN photos[i]
                 ELSE IF lastOp'.out = "content"
                 THEN [photos[i] EXCEPT !.dataUrl = StyledImage,
                                        !.isGeneratingCaption = FALSE]
                 ELSE [photos[i] EXCEPT !.isGeneratingCaption = FALSE]
    ]_vars

\* C15 witness: a style edit has failed for a photo of the collection, which
\* has the image the camera gave and a cleared pending flag
C15_Witness ==
  /\ lastOp.op = "editSettled"
  /\ lastOp.out = "error"
  /\ \E i \in 1..Len(photos) :
       /\ photos[i].id = lastOp.id
       /\ photos[i].dataUrl \in CaptureImages
       /\ ~photos[i].isGeneratingCaption

\* ------------------------------------------------ claims on the development
\* C16: in every step the developmentProgress of every photo that stays in
\* the collection does not decrease and is at most 100 (and stays 100 once it
\* is 100); the progress a mounted polaroid shows does not decrease either, is
\* at most 100, and a polaroid that mounts starts from the stored progress of
\* its photo, which is what it had reported when it unmounted.
C16_ProgressMonotone ==
  [][/\ \A i \in 1..Len(photos) : \A j \in 1..Len(photos') :
          photos'[j].id = photos[i].id =>
            /\ photos'[j].developmentProgress >= photos[i].developmentProgress
            /\ photos'[j].developmentProgress <= FullyDeveloped
     /\ \A id \in DOMAIN polaroids' :
          /\ polaroids'[id] <= FullyDeveloped
          /\ id \in DOMAIN polaroids => polaroids'[id] >= polaroids[id]
          /\ id \notin DOMAIN polaroids =>
               \E i \in 1..Len(photos) :
                 photos[i].id = id /\ polaroids'[id] = photos[i].developmentProgress
     /\ \A id \in DOMAIN polaroids : \A j \in 1..Len(photos') :
          (photos'[j].id = id /\ id \notin DOMAIN polaroids') =>
            photos'[j].developmentProgress = polaroids[id]
    ]_vars

\* C16 witness: a polaroid that was shaken up to 100 has unmounted, reported
\* 100, mounted again from it, and its timer has fired: it still shows 100
C16_Witness ==
  /\ lastOp.op = "tick"
  /\ Len(photos) = 1
  /\ photos[1].developmentProgress = FullyDeveloped
  /\ photos[1].x = 120
  /\ polaroids = [id \in {photos[1].id} |-> FullyDeveloped]

\* ------------------------------------------------------- claims on the ids
\* C17 (as claimed): in every reachable state no two entries of the user's
\* collection, no two entries of the pool and no two documents of the remote
\* collection carry the same photo id, also after a photo was shared, made
\* private and shared again.
C17_UniqueIds ==
  /\ NoDuplicateIds(photos)
  /\ NoDuplicateIds(StoredList(lsPool))
  /\ NoDuplicateIds(remote)

\* the step is one of the handlers that patch photos of the collection
PatchStep ==
  lastOp'.op \in {"updatePosition", "updateProgress", "captionSettled",
                  "editPhoto", "editSettled", "toggleShare"}

\* the step loads the collection from the durable record, or drops it
LoadStep == lastOp'.op \in {"startup", "reload"}

\* C18: a handler that patches photos keeps the collection's length and
\* order, and every photo's id, timestamp and rotation; only the end of a
\* style edit changes an image. In every step but a page load a photo that
\* stays in the collection keeps its timestamp and rotation, and a captured
\* photo has the id, timestamp and rotation of its capture.
C18_Immutables ==
  [][/\ PatchStep =>
          /\ Len(photos') = Len(photos)
          /\ \A i \in 1..Len(photos) :
               /\ photos'[i].id = photos[i].id
               /\ photos'[i].timestamp = photos[i].timestamp
               /\ photos'[i].rotation = photos[i].rotation
               /\ lastOp'.op # "editSettled" => photos'[i].dataUrl = photos[i].dataUrl
     /\ ~LoadStep =>
          \A i \in 1..Len(photos) : \A j \in 1..Len(photos') :
            photos'[j].id = photos[i].id =>
              /\ photos'[j].timestamp = photos[i].timestamp
              /\ photos'[j].rotation = photos[i].rotation
              /\ lastOp'.op # "editSettled" => photos'[j].dataUrl = photos[i].dataUrl
    ]_vars

\* C18 witness: a style edit has given a photo a new image; the photo has
\* the id, the timestamp and the rotation of its capture, and has been moved
C18_Witness ==
  /\ lastOp.op = "editSettled"
  /\ lastOp.out = "content"
  /\ \E i \in 1..Len(photos) :
       /\ photos[i].id = lastOp.id
       /\ photos[i].dataUrl = StyledImage
       /\ photos[i].id = randomUUID(photos[i].timestamp)
       /\ photos[i].rotation \in Rotations
       /\ <<photos[i].x, photos[i].y>> \in Positions

\* the step is updatePhotoPosition(id, x, y)
PositionStep == lastOp'.op = "updatePosition"

\* the step is updatePhotoProgress(id, progress)
ProgressStep == lastOp'.op = "updateProgress"

\* C19: updatePhotoPosition(id, x, y) gives the photo with that id the
\* position (x, y) and updatePhotoProgress(id, p) gives it the progress p,
\* whatever they were; no other field and no other photo changes, and with no
\* photo of that id the collection stays as it is.
C19_Overwrite ==
  [][/\ PositionStep =>
          /\ Len(photos') = Len(photos)
          /\ \A i \in 1..Len(photos) :
               photos'[i] = IF photos[i].id = lastOp'.id
                            THEN [photos[i] EXCEPT !.x = lastOp'.args[1],
                                                   !.y = lastOp'.args[2]]
                            ELSE photos[i]
          /\ lastOp'.id \notin Ids(photos) => photos' = photos
     /\ ProgressStep =>
          /\ Len(photos') = Len(photos)
          /\ \A i \in 1..Len(photos) :
               photos'[i] = IF photos[i].id = lastOp'.id
                            THEN [photos[i] EXCEPT
                                    !.developmentProgress = lastOp'.args[1]]
                            ELSE photos[i]
          /\ lastOp'.id \notin Ids(photos) => photos' = photos
    ]_vars

\* C19 witness: updatePhotoProgress has set a progress below the one the
\* photo had (which the user record, saved before, still shows)
C19_Witness ==
  /\ lastOp.op = "updateProgress"
  /\ \E i \in 1..Len(photos) :
       /\ photos[i].id = lastOp.id
       /\ photos[i].developmentProgress = lastOp.args[1]
       /\ \E k \in 1..Len(StoredList(lsUser)) :
            /\ StoredList(lsUser)[k].id = lastOp.id
            /\ StoredList(lsUser)[k].developmentProgress > lastOp.args[1]

\* a captioning call or a style-edit call is in flight for this id
InFlight(id) == id \in captions \/ \E k \in 1..Len(edits) : edits[k] = id

\* C20 (as claimed): in every reachable state a photo of the collection with
\* a captioning call or a style-edit call in flight has its pending flag set.
C20_PendingWhileInFlight ==
  \A i \in 1..Len(photos) :
    InFlight(photos[i].id) => photos[i].isGeneratingCaption

\* ------------------------------------------- sessions without storage failure
\* no setItem of the step threw QuotaExceededError
StorageHasRoom == lastOp'.wr # "quota" /\ lastOp'.pw # "quota"

\* the App with a localStorage that always has room: captures, captions,
\* moves, deletes, saves that end late, and page loads
NextNoFailure ==
  \/ Startup /\ StorageHasRoom
  \/ \E d \in CaptureImages, rot \in Rotations : Capture(d, rot) /\ StorageHasRoom
  \/ \E id \in captions, o \in ProviderOutcomes :
       CaptionSettled(id, o) /\ StorageHasRoom
  \/ \E id \in KnownIds, pos \in Positions :
       UpdatePosition(id, pos[1], pos[2]) /\ StorageHasRoom
  \/ \E id \in KnownIds : DeletePhoto(id) /\ StorageHasRoom
  \/ \E i \in 1..Len(saves) : SaveDone(i) /\ StorageHasRoom
  \/ Reload

SpecNoFailure == Init /\ [][NextNoFailure]_vars

\* ----------------------------------------------------- claims on the saves
\* C21 (as claimed): with no storage failure, whenever the App has loaded and
\* no saveUserPhotos call is still running, the user record is the saved form
\* of the collection as it is now (large payloads compressed), in whatever
\* order the overlapping saves ended.
C21_LastWriteWins ==
  (isLoaded /\ saves = <<>>) => lsUser = SavedForm(photos)

\* ---------------------------------------------------- claims on the uploads
\* the step ends or starts a saveUserPhotos call without any handler: the
\* first save after a page load, or a save that ends late
RestartOrSaveStep == lastOp'.op \in {"startup", "saveDone", "reload"}

CompressInputs ==
  {Image("jpeg90", w, h, (w * h) \div 2, ok) :
     w \in CompressSides, h \in CompressSides, ok \in BOOLEAN}

\* one photo with one of the images, nothing else going on
InitCompress ==
  /\ photos \in {<<[WallPhoto EXCEPT !.dataUrl = d]>> : d \in CompressInputs}
  /\ isLoaded = TRUE
  /\ userLocation = NoLoc
  /\ globalPhotos = <<>>
  /\ nextId = 1
  /\ apiKey = FALSE
  /\ db = FALSE
  /\ lsUser = Absent
  /\ lsPool = Absent
  /\ remote = <<>>
  /\ captions = {}
  /\ edits = <<>>
  /\ saves = <<>>
  /\ uploads = <<>>
  /\ ops = 0
  /\ lastOp = NoOp
  /\ view = "studio"
  /\ polaroids = <<>>
  /\ deleted = {}

\* const compressed = await compressImage(p.dataUrl); { ...p, dataUrl: compressed }
CallCompressImage ==
  /\ lastOp.op = "init"
  /\ lastOp' = [Op("compressImage", photos[1].id, <<>>, "none") EXCEPT
                  !.snap = <<[photos[1] EXCEPT
                                !.dataUrl = compressImage(photos[1].dataUrl)]>>]
  /\ UNCHANGED <<photos, isLoaded, userLocation, globalPhotos, nextId, apiKey,
                 db, lsUser, lsPool, remote, captions, edits, saves, uploads,
                 ops, view, polaroids, deleted>>

NextCompress == CallCompressImage

SpecCompress == InitCompress /\ [][NextCompress]_vars

\* -------------------------------------------------- claims on compressImage
\* the larger of two numbers
Larger(a, b) == IF a > b THEN a ELSE b

\* s is the whole number at or just below a * c / b, or one below it when the
\* quotient is whole: s <= a * c / b <= s + 1
WithinRounding(s, a, c, b) == s * b <= a * c /\ a * c <= (s + 1) * b

\* C23: for a decodable image of w x h pixels compressImage gives an image
\* whose longer side is min(max(w, h), 800), on the side that was the longer
\* one, and whose other side is the input's other side scaled by the same
\* factor, within one pixel; an image with both sides at most 800 keeps its
\* width and its height.
C23_ClampKeepsRatio ==
  (lastOp.op = "compressImage" /\ photos[1].dataUrl.ok) =>
    LET in  == photos[1].dataUrl
        out == lastOp.snap[1].dataUrl
    IN /\ Larger(out.w, out.h) = Min(Larger(in.w, in.h), MaxWidth)
       /\ Larger(in.w, in.h) <= MaxWidth => (out.w = in.w /\ out.h = in.h)
       /\ in.w > in.h =>
            /\ out.w = Min(in.w, MaxWidth)
            /\ WithinRounding(out.h, in.h, out.w, in.w)
       /\ in.w <= in.h =>
            /\ out.h = Min(in.h, MaxWidth)
            /\ WithinRounding(out.w, in.w, out.h, in.h)

\* C23 witness: a 2000 x 600 image has come out as 800 x 240
C23_Witness ==
  /\ lastOp.op = "compressImage"
  /\ photos[1].dataUrl.ok
  /\ photos[1].dataUrl.w = 2000
  /\ photos[1].dataUrl.h = 600
  /\ lastOp.snap[1].dataUrl.w = 800
  /\ lastOp.snap[1].dataUrl.h = 240

\* ---------------------------------------------------- claims on deletion
\* C24 (as claimed): in every reachable state no photo that deletePhoto has
\* removed is in the collection, whatever settled or was loaded afterwards.
C24_DeletedStayGone ==
  \A id \in deleted : id \notin Ids(photos)

\* within one page session a deleted photo stays away: every step but a
\* page load puts no photo in the collection that was not there, except a
\* capture, whose photo has an id never handed out before
GoneWithinSession ==
  [][lastOp'.op # "startup" =>
       \A id \in Ids(photos') :
         \/ id \in Ids(photos)
         \/ CaptureStep /\ id \notin KnownIds /\ id \notin deleted]_vars

\* ------------------------------------------- sessions whose calls all settle
\* captures of small frames, captions, style edits, deletes, saves that end
\* late and page loads, with a storage that has room
SettleCaption ==
  \E id \in captions, o \in ProviderOutcomes : CaptionSettled(id, o) /\ StorageHasRoom

SettleEdit ==
  \E i \in 1..Len(edits), o \in ProviderOutcomes : EditSettled(i, o) /\ StorageHasRoom

EndSave == \E i \in 1..Len(saves) : SaveDone(i) /\ StorageHasRoom

NextSettles ==
  \/ Startup /\ StorageHasRoom
  \/ \E rot \in Rotations : Capture(CamEdge, rot) /\ StorageHasRoom
  \/ SettleCaption
  \/ \E id \in KnownIds : EditPhoto(id) /\ StorageHasRoom
  \/ SettleEdit
  \/ \E id \in KnownIds : DeletePhoto(id) /\ StorageHasRoom
  \/ EndSave
  \/ Reload

\* every generatePhotoCaption call and every editPhotoStyle call in flight
\* settles and its continuation runs; a save whose images decode runs to its
\* end; a page that loads runs its first effect
SettlesFairness ==
  /\ WF_vars(SettleCaption)
  /\ WF_vars(SettleEdit)
  /\ WF_vars(EndSave)
  /\ WF_vars(Startup /\ StorageHasRoom)

SpecSettles == Init /\ [][NextSettles]_vars /\ SettlesFairness

\* --------------------------------------------------- claims on the pending flag
\* the collection holds the photo with this id and its pending flag is set
Pending(id) ==
  \E i \in 1..Len(photos) : photos[i].id = id /\ photos[i].isGeneratingCaption

\* C25 (as claimed): when every captioning and style-edit call settles, a
\* photo of the collection whose pending flag is set later has it cleared or
\* has left the collection, also when the photo was loaded from the user
\* record with the flag set.
C25_PendingClears ==
  \A n \in 1..MaxOps :
    [](Pending(randomUUID(n)) => <>(~Pending(randomUUID(n))))

\* ---------------------------------------------------- claims on the startup
\* C26: while the page has not loaded the stored photos, no step writes the
\* user record or starts a save, except the step that ends the load: it makes
\* the stored photos the collection, calls saveUserPhotos with exactly them,
\* and leaves in the user record the photos that were there.
C26_NoSaveBeforeLoad ==
  [][~isLoaded =>
       \/ /\ lastOp'.op = "startup"
          /\ isLoaded'
          /\ photos' = StoredList(lsUser)
          /\ lastOp'.snap = StoredList(lsUser)
          /\ lastOp'.wr \in {"ok", "quota"}
          /\ StoredList(lsUser') = StoredList(lsUser)
          /\ saves' = saves
       \/ /\ ~isLoaded'
          /\ lsUser' = lsUser
          /\ saves' = saves
          /\ photos' = photos
    ]_vars

\* C26 witness: a page has loaded a record that held a photo, and its first
\* save has written the loaded photos
C26_Witness ==
  /\ lastOp.op = "startup"
  /\ lastOp.wr = "ok"
  /\ photos # <<>>
  /\ lastOp.snap = photos
  /\ lsUser = SavedForm(photos)

\* ------------------------------------------------- sharing and deleting
\* one photo on the wall that is shared, unshared and deleted while the
\* gallery is opened, with or without a remote collection
NextFallback ==
  \/ NextShare
  \/ \E id \in KnownIds : DeletePhoto(id)

SpecFallback == InitShare /\ [][NextFallback]_vars

\* ------------------------------------------------------ claims on the pool
\* the ids of the photos in the pool
PoolIds(pool) == Ids(StoredList(pool))

\* C27: no step removes an id from the pool, whether it saves, uploads,
\* unshares, deletes or fails on the storage quota; and a getGlobalGallery
\* call that fetched nothing returns a photo for every id of the pool, the
\* ids of photos since unshared or deleted among them.
C27_PoolGrows ==
  [][/\ PoolIds(lsPool) \subseteq PoolIds(lsPool')
     /\ (lastOp'.op = "getGlobalGallery" /\ ~lastOp'.threw /\ lastOp'.snap = <<>>) =>
          PoolIds(lsPool) \subseteq Ids(globalPhotos')
    ]_vars

\* C27 witness: without a remote collection a photo was shared and then
\* deleted; the pool still holds it and getGlobalGallery has returned it
C27_Witness ==
  /\ ~db
  /\ lastOp.op = "getGlobalGallery"
  /\ \E id \in deleted :
       /\ id \notin Ids(photos)
       /\ id \in PoolIds(lsPool)
       /\ id \in Ids(globalPhotos)

====
